---- MODULE Spec2Model ----
(***************************************************************************)
(* Self-improving research agent: Planner -> Executor -> Evaluator ->      *)
(* Learner -> MistakeStore, and the rules fed back to the Planner.         *)
(*                                                                         *)
(* Python strings are TLA+ strings; substring tests and lower() are        *)
(* computed character by character.  Optional[str] fields hold None.       *)
(* Timestamps (datetime.now().isoformat()) are readings of a monotonic     *)
(* clock; probabilities are percentages.                                   *)
(***************************************************************************)
EXTENDS Integers, Sequences, FiniteSets, TLC

VARIABLES
    file,                 \* contents of MISTAKES_FILE (a MemorySnapshot as JSON)
    evicted,              \* entries cut off by the last add_mistakes slice
    clock,                \* datetime.now()
    learned_rules,        \* PlannerAgent.learned_rules
    mistake_probability,  \* ExecutorAgent.mistake_probability, in percent
    pc,                   \* position inside ResearchAgent.research
    prompt,               \* what create_plan put into the instruction
    plan,                 \* ResearchPlan of the current run
    trace,                \* ExecutionTrace of the current run
    failed_calls,         \* steps whose collaborator call raised inside the tool
    evaluation,           \* EvaluationResult of the current run
    mistakes,             \* result of analyze_failure in the current run
    call,                 \* the last call made on a component from outside research
    processes             \* the processes sharing the file: where each is in a store call

vars == <<file, evicted, clock, learned_rules, mistake_probability, pc,
          prompt, plan, trace, failed_calls, evaluation, mistakes, call,
          processes>>

-----------------------------------------------------------------------------
(* Bounds *)

MaxTools == 3        \* longest tools_executed list of a hand-built trace
MaxSteps == 2        \* most steps of a plan the model writes
MaxNew == 2          \* most mistakes passed to one add_mistakes call
MaxTime == 2         \* last clock reading: mistakes handed to the store in one behaviour
MaxRuns == 3         \* most runs counted in total_runs
FillMargin == 1      \* prefilled files hold the cap minus 0..FillMargin entries
MaxMistakes == 9     \* longest list a caller hands to generate_learning_rules
MaxIssues == 3       \* longest issue list of a hand-built evaluation
MaxSaved == 2        \* longest mistake list of a saved snapshot or a hand-written file
MaxRules == 2        \* longest rule list handed to inject_learning
MaxCount == 4        \* most runs counted in a file the planner reads on its own
MaxProcs == 2        \* processes that share the file
MaxCalls == 1        \* store calls one process makes

-----------------------------------------------------------------------------
(* Python values *)

None == "None"

Min(a, b) == IF a < b THEN a ELSE b

RECURSIVE SumSeq(_)
SumSeq(s) == IF s = <<>> THEN 0 ELSE Head(s) + SumSeq(Tail(s))

\* sub in s
Contains(s, sub) ==
    \E i \in 1..(Len(s) - Len(sub) + 1) : SubSeq(s, i, i + Len(sub) - 1) = sub

LowerChar(c) ==
    CASE c = "A" -> "a" [] c = "B" -> "b" [] c = "C" -> "c" [] c = "D" -> "d"
      [] c = "E" -> "e" [] c = "F" -> "f" [] c = "G" -> "g" [] c = "H" -> "h"
      [] c = "I" -> "i" [] c = "J" -> "j" [] c = "K" -> "k" [] c = "L" -> "l"
      [] c = "M" -> "m" [] c = "N" -> "n" [] c = "O" -> "o" [] c = "P" -> "p"
      [] c = "Q" -> "q" [] c = "R" -> "r" [] c = "S" -> "s" [] c = "T" -> "t"
      [] c = "U" -> "u" [] c = "V" -> "v" [] c = "W" -> "w" [] c = "X" -> "x"
      [] c = "Y" -> "y" [] c = "Z" -> "z" [] OTHER -> c

\* str.lower()
RECURSIVE Lower(_)
Lower(s) ==
    IF Len(s) = 0 THEN ""
    ELSE LowerChar(SubSeq(s, 1, 1)) \o Lower(SubSeq(s, 2, Len(s)))

\* list.index(x): 1-based position of the first occurrence
IndexOf(s, x) == CHOOSE i \in 1..Len(s) : s[i] = x /\ \A j \in 1..(i - 1) : s[j] # x

InSeq(x, s) == \E i \in 1..Len(s) : s[i] = x

-----------------------------------------------------------------------------
(* schemas.py *)

ToolExecution(name, exec, summary, err) ==
    [tool_name |-> name, executed |-> exec, output_summary |-> summary, error |-> err]

NoPlan == [question |-> "", steps |-> <<>>]
NoTrace == [plan |-> NoPlan, tools_executed |-> <<>>, final_answer |-> ""]
NoEvaluation ==
    [passed |-> FALSE, score |-> <<0, 3>>, required_tools_used |-> FALSE,
     correct_sequence_followed |-> FALSE, answer_supported_by_data |-> FALSE,
     issues |-> <<>>]
NoPrompt == [tier |-> "", constraints |-> <<>>]

\* a call: the name of the method, its argument and what it returned
Call(op, arg, result) == [op |-> op, arg |-> arg, result |-> result]
NoCall == Call("", None, None)

\* one process uses the file, and is modelled call by call
NoProcesses == <<>>

EmptySnapshot ==
    [mistakes |-> <<>>, version |-> "1.0", total_runs |-> 0, successful_runs |-> 0]

-----------------------------------------------------------------------------
(* agents/evaluator.py *)

ISSUE_TOOL == "Required tool 'web_search' was not executed"
ISSUE_SEQUENCE == "Tools were not called in the correct sequence (web_search → summarize)"
ISSUE_SUPPORT == "Answer may not be supported by search data"

AdmissionPhrases == {"don't have", "no data", "cannot answer", "insufficient information"}

\* [t.tool_name for t in trace.tools_executed if t.executed]
ExecutedTools(tr) ==
    LET done == SelectSeq(tr.tools_executed, LAMBDA t : t.executed)
    IN  [i \in 1..Len(done) |-> done[i].tool_name]

\* _check_sequence without its "only web_search" branch
_check_sequence_NoVacuousPass(executed_tools) ==
    IF executed_tools = <<>> THEN FALSE
    ELSE IF InSeq("web_search", executed_tools) /\ InSeq("summarize", executed_tools)
         THEN IndexOf(executed_tools, "web_search") < IndexOf(executed_tools, "summarize")
    ELSE FALSE

\* _check_sequence accepting both tools in either order
_check_sequence_AnyOrder(executed_tools) ==
    IF executed_tools = <<>> THEN FALSE
    ELSE IF InSeq("web_search", executed_tools) THEN TRUE
    ELSE FALSE

_check_sequence(executed_tools) ==
    IF executed_tools = <<>> THEN FALSE
    ELSE IF InSeq("web_search", executed_tools) /\ InSeq("summarize", executed_tools)
         THEN IndexOf(executed_tools, "web_search") < IndexOf(executed_tools, "summarize")
    ELSE IF InSeq("web_search", executed_tools) THEN TRUE
    ELSE FALSE

\* _check_answer_support matching the phrases without lower()
_check_answer_support_CaseSensitive(tr) ==
    LET web_search_executed ==
            \E i \in 1..Len(tr.tools_executed) :
                tr.tools_executed[i].tool_name = "web_search" /\ tr.tools_executed[i].executed
    IN  IF ~web_search_executed
        THEN \E phrase \in AdmissionPhrases : Contains(tr.final_answer, phrase)
        ELSE TRUE

_check_answer_support(tr) ==
    LET web_search_executed ==
            \E i \in 1..Len(tr.tools_executed) :
                tr.tools_executed[i].tool_name = "web_search" /\ tr.tools_executed[i].executed
        answer_lower == Lower(tr.final_answer)
    IN  IF ~web_search_executed
        THEN IF \E phrase \in AdmissionPhrases : Contains(answer_lower, phrase)
             THEN TRUE
             ELSE FALSE
        ELSE TRUE

\* a score is the pair <<numerator, denominator>> of checks_passed / 3.0

\* score >= 0.67
Passes_Rounded(score) == score[1] * 100 >= 67 * score[2]

\* score >= 0.66
Passes(score) == score[1] * 100 >= 66 * score[2]

evaluate(tr) ==
    LET executed_tools == ExecutedTools(tr)
        required_tools_used == InSeq("web_search", executed_tools)
        correct_sequence == _check_sequence(executed_tools)
        answer_supported == _check_answer_support(tr)
        issues == (IF ~required_tools_used THEN <<ISSUE_TOOL>> ELSE <<>>)
                  \o (IF ~correct_sequence THEN <<ISSUE_SEQUENCE>> ELSE <<>>)
                  \o (IF ~answer_supported THEN <<ISSUE_SUPPORT>> ELSE <<>>)
        checks_passed == SumSeq(<<IF required_tools_used THEN 1 ELSE 0,
                                  IF correct_sequence THEN 1 ELSE 0,
                                  IF answer_supported THEN 1 ELSE 0>>)
        score == <<checks_passed, 3>>
    IN  [passed |-> Passes(score),
         score |-> score,
         required_tools_used |-> required_tools_used,
         correct_sequence_followed |-> correct_sequence,
         answer_supported_by_data |-> answer_supported,
         issues |-> issues]

-----------------------------------------------------------------------------
(* agents/learner.py *)

TOOL_SKIPPED == "TOOL_SKIPPED"
WRONG_ORDER == "WRONG_ORDER"
PREMATURE_ANSWER == "PREMATURE_ANSWER"
UNSUPPORTED_CLAIM == "UNSUPPORTED_CLAIM"
MistakeType == {TOOL_SKIPPED, WRONG_ORDER, PREMATURE_ANSWER, UNSUPPORTED_CLAIM}

\* Mistake(...): frequency takes its default 1, timestamp is datetime.now()
_create_mistake(mistake_type, description, corrective_rule, question, now) ==
    [mistake_type |-> mistake_type, description |-> description,
     corrective_rule |-> corrective_rule, frequency |-> 1,
     timestamp |-> now, question |-> question]

\* the body of the loop without its first branch
AnalyzeIssue_NoToolBranch(issue, tr, now) ==
    IF Contains(Lower(issue), "sequence")
    THEN <<_create_mistake(WRONG_ORDER,
               "Tools executed in wrong order for: " \o tr.plan.question,
               "ALWAYS execute web_search BEFORE summarize",
               tr.plan.question, now)>>
    ELSE <<>>

\* the loop body matching the support issue the evaluator words
AnalyzeIssue_MatchesSupport(issue, tr, now) ==
    LET question == tr.plan.question
        web_search_executed ==
            \E i \in 1..Len(tr.tools_executed) :
                tr.tools_executed[i].tool_name = "web_search" /\ tr.tools_executed[i].executed
    IN  IF Contains(issue, "web_search") /\ Contains(issue, "not executed")
        THEN <<_create_mistake(TOOL_SKIPPED,
                   "Failed to execute web_search for question: " \o question,
                   "ALWAYS execute web_search before attempting to answer research questions",
                   question, now)>>
        ELSE IF Contains(Lower(issue), "sequence")
        THEN <<_create_mistake(WRONG_ORDER,
                   "Tools executed in wrong order for: " \o question,
                   "ALWAYS execute web_search BEFORE summarize",
                   question, now)>>
        ELSE IF Contains(Lower(issue), "supported")
        THEN IF ~web_search_executed
             THEN <<_create_mistake(PREMATURE_ANSWER,
                        "Answered without gathering data: " \o question,
                        "NEVER answer research questions without first executing web_search",
                        question, now)>>
             ELSE <<_create_mistake(UNSUPPORTED_CLAIM,
                        "Answer contradicts search data: " \o question,
                        "ALWAYS base answers strictly on search results",
                        question, now)>>
        ELSE <<>>

\* the body of the loop of analyze_failure: the mistakes one issue appends
AnalyzeIssue(issue, tr, now) ==
    LET question == tr.plan.question
        web_search_executed ==
            \E i \in 1..Len(tr.tools_executed) :
                tr.tools_executed[i].tool_name = "web_search" /\ tr.tools_executed[i].executed
    IN  IF Contains(issue, "web_search") /\ Contains(issue, "not executed")
        THEN <<_create_mistake(TOOL_SKIPPED,
                   "Failed to execute web_search for question: " \o question,
                   "ALWAYS execute web_search before attempting to answer research questions",
                   question, now)>>
        ELSE IF Contains(Lower(issue), "sequence")
        THEN <<_create_mistake(WRONG_ORDER,
                   "Tools executed in wrong order for: " \o question,
                   "ALWAYS execute web_search BEFORE summarize",
                   question, now)>>
        ELSE IF Contains(Lower(issue), "not supported")
        THEN IF ~web_search_executed
             THEN <<_create_mistake(PREMATURE_ANSWER,
                        "Answered without gathering data: " \o question,
                        "NEVER answer research questions without first executing web_search",
                        question, now)>>
             ELSE <<_create_mistake(UNSUPPORTED_CLAIM,
                        "Answer contradicts search data: " \o question,
                        "ALWAYS base answers strictly on search results",
                        question, now)>>
        ELSE <<>>

\* analyze_failure over the issues from position i on; every _create_mistake
\* reads the clock later than the one before it
RECURSIVE AnalyzeFrom(_, _, _, _)
AnalyzeFrom(issues, i, tr, now) ==
    IF i > Len(issues) THEN <<>>
    ELSE LET found == AnalyzeIssue(issues[i], tr, now + 1)
         IN  found \o AnalyzeFrom(issues, i + 1, tr, now + Len(found))

analyze_failure(tr, ev, now) == AnalyzeFrom(ev.issues, 1, tr, now)

\* hashlib.md5(mistake_type.encode()).hexdigest()[:8]; the digests of the
\* four MistakeType tags are the real ones, any other tag has one of its own
_generate_rule_id(mistake_type) ==
    CASE mistake_type = TOOL_SKIPPED -> "4bb57af8"
      [] mistake_type = WRONG_ORDER -> "dd91b33d"
      [] mistake_type = PREMATURE_ANSWER -> "85fec4f0"
      [] mistake_type = UNSUPPORTED_CLAIM -> "9969f3dd"
      [] OTHER -> "md5:" \o mistake_type

\* keys of mistake_groups in insertion order: the types in order of first occurrence
GroupKeys(ms) ==
    LET firsts == SelectSeq([i \in 1..Len(ms) |-> i],
                            LAMBDA i : \A j \in 1..(i - 1) : ms[j].mistake_type # ms[i].mistake_type)
    IN  [k \in 1..Len(firsts) |-> ms[firsts[k]].mistake_type]

\* max(group, key=lambda m: m.timestamp): the first entry with the largest timestamp
Latest(group) ==
    LET i == CHOOSE k \in 1..Len(group) :
                 /\ \A j \in 1..Len(group) : group[j].timestamp <= group[k].timestamp
                 /\ \A j \in 1..(k - 1) : group[j].timestamp < group[k].timestamp
    IN  group[i]

LearningRule(rule_id, rule_text, applies_to, priority) ==
    [rule_id |-> rule_id, rule_text |-> rule_text, applies_to |-> applies_to,
     priority |-> priority]

\* the priority without its cap
RulePriority_Uncapped(group) ==
    LET frequency == Len(group)
    IN  3 + frequency

\* the priority computed from a group of mistakes of one type
RulePriority(group) ==
    LET frequency == Len(group)
    IN  Min(10, 3 + frequency)

\* sorted(rules, key=lambda r: r.priority, reverse=True), stable
RECURSIVE RulesFrom(_, _)
RulesFrom(rules, p) ==
    IF p < 1 THEN <<>>
    ELSE SelectSeq(rules, LAMBDA r : r.priority = p) \o RulesFrom(rules, p - 1)

SortByPriorityDesc(rules) == RulesFrom(rules, 10)

generate_learning_rules(ms) ==
    LET keys == GroupKeys(ms)
        group(t) == SelectSeq(ms, LAMBDA m : m.mistake_type = t)
        rules == [k \in 1..Len(keys) |->
                     LearningRule(_generate_rule_id(keys[k]),
                                  Latest(group(keys[k])).corrective_rule,
                                  "planning",
                                  RulePriority(group(keys[k])))]
    IN  SortByPriorityDesc(rules)

-----------------------------------------------------------------------------
(* memory/behavior_modifier.py *)

generate_constraints(ms) ==
    IF ms = <<>> THEN <<>> ELSE generate_learning_rules(ms)

-----------------------------------------------------------------------------
(* agents/planner.py *)

\* an injection that keeps the rules of earlier injections
inject_learning_Merging(rules) ==
    learned_rules \o SelectSeq(rules, LAMBDA r : r.applies_to = "planning")

inject_learning(rules) == SelectSeq(rules, LAMBDA r : r.applies_to = "planning")

-----------------------------------------------------------------------------
(* config.py *)

MAX_MISTAKES_STORED == 100
MISTAKE_FREQUENCY_THRESHOLD == 2

-----------------------------------------------------------------------------
(* memory/mistake_store.py *)

\* dict.get(key, default)
Get(d, key, default) == IF key \in DOMAIN d THEN d[key] ELSE default

\* a dump that writes every mistake as seen once
model_dump_SeenOnce(m) ==
    [mistake_type |-> m.mistake_type, description |-> m.description,
     corrective_rule |-> m.corrective_rule, frequency |-> 1,
     timestamp |-> m.timestamp, question |-> m.question]

\* m.model_dump()
model_dump(m) ==
    [mistake_type |-> m.mistake_type, description |-> m.description,
     corrective_rule |-> m.corrective_rule, frequency |-> m.frequency,
     timestamp |-> m.timestamp, question |-> m.question]

\* Mistake(**m) raises when a field without default is missing
MistakeRequired == {"mistake_type", "description", "corrective_rule", "question"}

MistakeFromDict(m, now) ==
    [mistake_type |-> m["mistake_type"], description |-> m["description"],
     corrective_rule |-> m["corrective_rule"], frequency |-> Get(m, "frequency", 1),
     timestamp |-> Get(m, "timestamp", now), question |-> m["question"]]

\* the file holds text: either it parses as a JSON object (data) or it does not
WriteText(data) == [parses |-> TRUE, data |-> data]

\* written by _ensure_file_exists when the file is missing
initial_data ==
    [mistakes |-> <<>>, version |-> "1.0", total_runs |-> 0, successful_runs |-> 0]

\* load with an empty default version
load_NoVersionDefault(f, now) ==
    LET data == f.data
        dicts == Get(data, "mistakes", <<>>)
    IN  IF f.parses /\ \A i \in 1..Len(dicts) : MistakeRequired \subseteq DOMAIN dicts[i]
        THEN [mistakes |-> [i \in 1..Len(dicts) |-> MistakeFromDict(dicts[i], now)],
              version |-> Get(data, "version", ""),
              total_runs |-> Get(data, "total_runs", 0),
              successful_runs |-> Get(data, "successful_runs", 0)]
        ELSE EmptySnapshot

load(f, now) ==
    LET data == f.data
        dicts == Get(data, "mistakes", <<>>)
    IN  IF f.parses /\ \A i \in 1..Len(dicts) : MistakeRequired \subseteq DOMAIN dicts[i]
        THEN [mistakes |-> [i \in 1..Len(dicts) |-> MistakeFromDict(dicts[i], now)],
              version |-> Get(data, "version", "1.0"),
              total_runs |-> Get(data, "total_runs", 0),
              successful_runs |-> Get(data, "successful_runs", 0)]
        ELSE EmptySnapshot

save(snapshot) ==
    WriteText([mistakes |-> [i \in 1..Len(snapshot.mistakes) |-> model_dump(snapshot.mistakes[i])],
               version |-> snapshot.version,
               total_runs |-> snapshot.total_runs,
               successful_runs |-> snapshot.successful_runs])

\* the merge loop appending without looking for the category
MergeOne_AlwaysAppend(ms, new_mistake) == Append(ms, new_mistake)

\* the merge loop taking over the rule text of the new mistake as well
MergeOne_LastRuleWins(ms, new_mistake) ==
    IF \E i \in 1..Len(ms) : ms[i].mistake_type = new_mistake.mistake_type
    THEN LET e == CHOOSE i \in 1..Len(ms) :
                      /\ ms[i].mistake_type = new_mistake.mistake_type
                      /\ \A j \in 1..(i - 1) : ms[j].mistake_type # new_mistake.mistake_type
         IN  [ms EXCEPT ![e].frequency = @ + 1, ![e].timestamp = new_mistake.timestamp,
                        ![e].corrective_rule = new_mistake.corrective_rule]
    ELSE Append(ms, new_mistake)

\* one turn of the merge loop of add_mistakes
MergeOne(ms, new_mistake) ==
    IF \E i \in 1..Len(ms) : ms[i].mistake_type = new_mistake.mistake_type
    THEN LET e == CHOOSE i \in 1..Len(ms) :
                      /\ ms[i].mistake_type = new_mistake.mistake_type
                      /\ \A j \in 1..(i - 1) : ms[j].mistake_type # new_mistake.mistake_type
         IN  [ms EXCEPT ![e].frequency = @ + 1, ![e].timestamp = new_mistake.timestamp]
    ELSE Append(ms, new_mistake)

RECURSIVE MergeAll(_, _, _)
MergeAll(ms, new_mistakes, i) ==
    IF i > Len(new_mistakes) THEN ms
    ELSE MergeAll(MergeOne(ms, new_mistakes[i]), new_mistakes, i + 1)

Frequencies(ms) == {ms[i].frequency : i \in 1..Len(ms)}

MaxFrequency(ms) ==
    IF ms = <<>> THEN 0
    ELSE CHOOSE f \in Frequencies(ms) : \A g \in Frequencies(ms) : g <= f

MinFrequency(ms) ==
    IF ms = <<>> THEN 0
    ELSE CHOOSE f \in Frequencies(ms) : \A g \in Frequencies(ms) : g >= f

\* sorted(ms, key=lambda m: m.frequency, reverse=True): stable, so entries of
\* equal frequency keep their order; built frequency by frequency from f down
RECURSIVE SortedFrom(_, _, _)
SortedFrom(ms, f, lowest) ==
    IF f < lowest THEN <<>>
    ELSE SelectSeq(ms, LAMBDA m : m.frequency = f) \o SortedFrom(ms, f - 1, lowest)

\* the slice taken without sorting first
SortByFrequencyDesc_Unsorted(ms) == ms

SortByFrequencyDesc(ms) == SortedFrom(ms, MaxFrequency(ms), MinFrequency(ms))

\* the slice keeping the end of the sorted list instead of its start
LimitStored_KeepsLast(ms) ==
    IF Len(ms) > MAX_MISTAKES_STORED
    THEN LET ordered == SortByFrequencyDesc(ms)
         IN  [kept |-> SubSeq(ordered, Len(ordered) - MAX_MISTAKES_STORED + 1, Len(ordered)),
              dropped |-> SubSeq(ordered, 1, Len(ordered) - MAX_MISTAKES_STORED)]
    ELSE [kept |-> ms, dropped |-> <<>>]

\* the list add_mistakes saves, and what its slice cut off
LimitStored(ms) ==
    IF Len(ms) > MAX_MISTAKES_STORED
    THEN LET ordered == SortByFrequencyDesc(ms)
         IN  [kept |-> SubSeq(ordered, 1, MAX_MISTAKES_STORED),
              dropped |-> SubSeq(ordered, MAX_MISTAKES_STORED + 1, Len(ordered))]
    ELSE [kept |-> ms, dropped |-> <<>>]

add_mistakes(f, new_mistakes, now) ==
    LET snapshot == load(f, now)
        limited == LimitStored(MergeAll(snapshot.mistakes, new_mistakes, 1))
    IN  [file |-> save([snapshot EXCEPT !.mistakes = limited.kept]),
         evicted |-> limited.dropped]

\* update_stats counting every run as a success
update_stats_AlwaysSuccess(f, success, now) ==
    LET snapshot == load(f, now)
    IN  save([snapshot EXCEPT !.total_runs = @ + 1, !.successful_runs = @ + 1])

update_stats(f, success, now) ==
    LET snapshot == load(f, now)
    IN  save([snapshot EXCEPT !.total_runs = @ + 1,
                              !.successful_runs = IF success THEN @ + 1 ELSE @])

\* clear writing a snapshot that still counts a run
clear_KeepsOneRun ==
    save([mistakes |-> <<>>, version |-> "1.0", total_runs |-> 1, successful_runs |-> 0])

clear == save([mistakes |-> <<>>, version |-> "1.0", total_runs |-> 0, successful_runs |-> 0])

-----------------------------------------------------------------------------
(* main.py *)

\* ResearchAgent._apply_learning: the planner's rules afterwards
_apply_learning(f, now, current_rules) ==
    LET snapshot == load(f, now)
    IN  IF snapshot.mistakes # <<>>
        THEN inject_learning(generate_constraints(snapshot.mistakes))
        ELSE current_rules

-----------------------------------------------------------------------------
(* Evaluating and analysing any trace a caller can build *)

Questions == {"What is the capital of France?"}

ToolNames == {"web_search", "summarize", "calculator"}

AnswerTexts ==
    {"I don't have enough information to answer this question.",
     "Paris is the capital of France.",
     "There is NO DATA about this.",
     "Based on the provided data, I Cannot Answer the question.",
     "Insufficient information was found.",
     "Error generating answer: timeout"}

RECURSIVE SeqsUpTo(_, _)
SeqsUpTo(S, n) ==
    IF n = 0 THEN {<<>>}
    ELSE LET shorter == SeqsUpTo(S, n - 1)
         IN  shorter \cup {Append(s, x) : s \in {t \in shorter : Len(t) = n - 1}, x \in S}

AnyToolExecution ==
    {ToolExecution(n, e, None, None) : n \in ToolNames, e \in BOOLEAN}

AnyTrace ==
    {[plan |-> [question |-> q, steps |-> <<>>], tools_executed |-> te, final_answer |-> a] :
        q \in Questions, te \in SeqsUpTo(AnyToolExecution, MaxTools), a \in AnswerTexts}

InitEval ==
    /\ file = WriteText(initial_data)
    /\ evicted = <<>>
    /\ clock = 0
    /\ learned_rules = <<>>
    /\ mistake_probability = 0
    /\ pc = "executed"
    /\ prompt = NoPrompt
    /\ plan = NoPlan
    /\ trace \in AnyTrace
    /\ failed_calls = {}
    /\ evaluation = NoEvaluation
    /\ mistakes = <<>>
    /\ call = NoCall
    /\ processes = NoProcesses

\* evaluation = self.evaluator.evaluate(trace)
Evaluate ==
    /\ pc = "executed"
    /\ evaluation' = evaluate(trace)
    /\ pc' = "evaluated"
    /\ UNCHANGED <<file, evicted, clock, learned_rules, mistake_probability,
                   prompt, plan, trace, failed_calls, mistakes, call, processes>>

\* mistakes = learner.analyze_failure(trace, evaluation), called on its own
AnalyzeFailure ==
    /\ pc = "evaluated"
    /\ mistakes' = analyze_failure(trace, evaluation, clock)
    /\ clock' = clock + Len(mistakes')
    /\ pc' = "analyzed"
    /\ UNCHANGED <<file, evicted, learned_rules, mistake_probability,
                   prompt, plan, trace, failed_calls, evaluation, call, processes>>

NextEval == Evaluate \/ AnalyzeFailure

SpecEval == InitEval /\ [][NextEval]_vars

-----------------------------------------------------------------------------
(* The store driven directly by its callers, on a file left by earlier runs *)

\* the i-th category a file can hold: the four MistakeType tags, then others
Category(i) ==
    CASE i = 1 -> TOOL_SKIPPED
      [] i = 2 -> WRONG_ORDER
      [] i = 3 -> PREMATURE_ANSWER
      [] i = 4 -> UNSUPPORTED_CLAIM
      [] OTHER -> "CATEGORY_" \o ToString(i)

\* rule texts of new mistakes, other than the text the stored entries carry
CorrectiveRules ==
    {"ALWAYS base answers strictly on search results"}

StoredMistake(i, frequency) ==
    [mistake_type |-> Category(i), description |-> "Earlier failure " \o ToString(i),
     corrective_rule |-> "ALWAYS execute web_search before attempting to answer research questions",
     frequency |-> frequency, timestamp |-> 0, question |-> "What is the population of Tokyo?"]

\* files earlier add_mistakes calls can have left: n categories, all seen
\* once ("flat") or seen between one and three times ("mixed")
Prefilled(n, shape) ==
    [mistakes |-> [i \in 1..n |-> StoredMistake(i, IF shape = "flat" THEN 1 ELSE 1 + (i % 3))],
     version |-> "1.0", total_runs |-> 0, successful_runs |-> 0]

PrefilledSizes == {0} \cup ((MAX_MISTAKES_STORED - FillMargin)..MAX_MISTAKES_STORED)

InputCategories ==
    {Category(1), Category(2), Category(MAX_MISTAKES_STORED + 1), Category(MAX_MISTAKES_STORED + 2)}

\* lists of Mistake objects a caller passes: frequency 1 (the default),
\* timestamps read from the clock one after the other
NewMistakes(types, rule, now) ==
    [i \in 1..Len(types) |->
        _create_mistake(types[i], "Failure of kind " \o types[i], rule,
                        "Who invented the telephone?", now + i)]

InitStore ==
    /\ \E n \in PrefilledSizes, shape \in {"flat", "mixed"} :
           file = save(Prefilled(n, shape))
    /\ evicted = <<>>
    /\ clock = 0
    /\ learned_rules = <<>>
    /\ mistake_probability = 0
    /\ pc = "idle"
    /\ prompt = NoPrompt
    /\ plan = NoPlan
    /\ trace = NoTrace
    /\ failed_calls = {}
    /\ evaluation = NoEvaluation
    /\ mistakes = <<>>
    /\ call = NoCall
    /\ processes = NoProcesses

\* store.add_mistakes(new_mistakes)
AddMistakes ==
    \E types \in SeqsUpTo(InputCategories, MaxNew) \ {<<>>}, rule \in CorrectiveRules :
        /\ clock + Len(types) <= MaxTime
        /\ LET result == add_mistakes(file, NewMistakes(types, rule, clock), clock)
           IN  /\ file' = result.file
               /\ evicted' = result.evicted
        /\ mistakes' = NewMistakes(types, rule, clock)
        /\ UNCHANGED processes
        /\ call' = Call("add_mistakes", NewMistakes(types, rule, clock), None)
        /\ clock' = clock + Len(types)
        /\ UNCHANGED <<learned_rules, mistake_probability, pc, prompt, plan, trace,
                       failed_calls, evaluation>>

\* store.update_stats(success)
UpdateStats ==
    \E success \in BOOLEAN :
        /\ load(file, clock).total_runs < MaxRuns
        /\ file' = update_stats(file, success, clock)
        /\ UNCHANGED processes
        /\ call' = Call("update_stats", success, None)
        /\ UNCHANGED <<evicted, clock, learned_rules, mistake_probability, pc,
                       prompt, plan, trace, failed_calls, evaluation, mistakes>>

\* store.clear()
Clear ==
    /\ file' = clear
    /\ UNCHANGED processes
    /\ call' = Call("clear", None, None)
    /\ UNCHANGED <<evicted, clock, learned_rules, mistake_probability, pc,
                   prompt, plan, trace, failed_calls, evaluation, mistakes>>

NextStore == AddMistakes \/ UpdateStats \/ Clear

SpecStore == InitStore /\ [][NextStore]_vars

-----------------------------------------------------------------------------
(* tools/web_search.py, tools/summarizer.py *)

WEB_SEARCH_MAX_RESULTS == 5

\* what the remote service does with one call
CallOutcomes == {"answers", "answers_nothing", "raises"}

\* search_web: the number of SearchResult objects returned.  Its try block
\* covers the whole DDGS call, so it never raises: a failing call gives []
search_web(outcome) ==
    [raised |-> FALSE,
     results |-> IF outcome = "answers" THEN WEB_SEARCH_MAX_RESULTS ELSE 0]

format_search_results(results) ==
    IF results = 0 THEN "No search results found."
    ELSE "Found " \o ToString(results) \o " search results:"

\* summarize_text: the number of key points of the SummaryOutput.  GROQ_API_KEY
\* is set wherever an ExecutorAgent exists; a failing or unparsable completion
\* gives the one-point fallback summary
summarize_text(outcome) ==
    [raised |-> FALSE,
     key_points |-> IF outcome = "answers" THEN 3 ELSE 1]

-----------------------------------------------------------------------------
(* agents/executor.py *)

\* random.random() < self.mistake_probability
_should_make_mistake(p) ==
    IF p <= 0 THEN {FALSE} ELSE IF p >= 100 THEN {TRUE} ELSE BOOLEAN

\* the loop recording a summarize step without data with no reason
ExecuteStep_SilentSkip(step, p, st) ==
    LET record(t) == [st EXCEPT !.tools_executed = Append(@, t)]
        failing(outcome, t) ==
            IF outcome = "raises"
            THEN [t EXCEPT !.failed_calls = @ \cup {step.step_number}]
            ELSE t
    IN  IF step.tool_required = "web_search"
        THEN UNION {
               IF mistake
               THEN {record(ToolExecution("web_search", FALSE, "Skipped intentionally", None))}
               ELSE {LET found == search_web(outcome)
                     IN  failing(outcome,
                           IF found.raised
                           THEN record(ToolExecution("web_search", FALSE, None, "search failed"))
                           ELSE [record(ToolExecution("web_search", TRUE,
                                     "Found " \o ToString(found.results) \o " results", None))
                                    EXCEPT !.search_data = format_search_results(found.results)])
                      : outcome \in CallOutcomes}
               : mistake \in _should_make_mistake(p)}
        ELSE IF step.tool_required = "summarize"
        THEN UNION {
               IF mistake
               THEN {record(ToolExecution("summarize", FALSE, "Skipped intentionally", None))}
               ELSE IF st.search_data # ""
               THEN {LET summary == summarize_text(outcome)
                     IN  failing(outcome,
                           IF summary.raised
                           THEN record(ToolExecution("summarize", FALSE, None, "summarize failed"))
                           ELSE record(ToolExecution("summarize", TRUE,
                                    "Extracted " \o ToString(summary.key_points) \o " key points",
                                    None)))
                      : outcome \in CallOutcomes}
               ELSE {record(ToolExecution("summarize", FALSE, None, None))}
               : mistake \in _should_make_mistake(p)}
        ELSE {st}

\* the loop summarizing whether or not a search has left data
ExecuteStep_SummarizesNothing(step, p, st) ==
    LET record(t) == [st EXCEPT !.tools_executed = Append(@, t)]
        failing(outcome, t) ==
            IF outcome = "raises"
            THEN [t EXCEPT !.failed_calls = @ \cup {step.step_number}]
            ELSE t
    IN  IF step.tool_required = "web_search"
        THEN UNION {
               IF mistake
               THEN {record(ToolExecution("web_search", FALSE, "Skipped intentionally", None))}
               ELSE {LET found == search_web(outcome)
                     IN  failing(outcome,
                           IF found.raised
                           THEN record(ToolExecution("web_search", FALSE, None, "search failed"))
                           ELSE [record(ToolExecution("web_search", TRUE,
                                     "Found " \o ToString(found.results) \o " results", None))
                                    EXCEPT !.search_data = format_search_results(found.results)])
                      : outcome \in CallOutcomes}
               : mistake \in _should_make_mistake(p)}
        ELSE IF step.tool_required = "summarize"
        THEN UNION {
               IF mistake
               THEN {record(ToolExecution("summarize", FALSE, "Skipped intentionally", None))}
               ELSE IF st.search_data \in STRING
               THEN {LET summary == summarize_text(outcome)
                     IN  failing(outcome,
                           IF summary.raised
                           THEN record(ToolExecution("summarize", FALSE, None, "summarize failed"))
                           ELSE record(ToolExecution("summarize", TRUE,
                                    "Extracted " \o ToString(summary.key_points) \o " key points",
                                    None)))
                      : outcome \in CallOutcomes}
               ELSE {record(ToolExecution("summarize", FALSE, "No data to summarize", None))}
               : mistake \in _should_make_mistake(p)}
        ELSE {st}

\* one turn of the loop of execute_plan on a state
\* [tools_executed, search_data, failed_calls], in every way it can go
ExecuteStep(step, p, st) ==
    LET record(t) == [st EXCEPT !.tools_executed = Append(@, t)]
        failing(outcome, t) ==
            IF outcome = "raises"
            THEN [t EXCEPT !.failed_calls = @ \cup {step.step_number}]
            ELSE t
    IN  IF step.tool_required = "web_search"
        THEN UNION {
               IF mistake
               THEN {record(ToolExecution("web_search", FALSE, "Skipped intentionally", None))}
               ELSE {LET found == search_web(outcome)
                     IN  failing(outcome,
                           IF found.raised
                           THEN record(ToolExecution("web_search", FALSE, None, "search failed"))
                           ELSE [record(ToolExecution("web_search", TRUE,
                                     "Found " \o ToString(found.results) \o " results", None))
                                    EXCEPT !.search_data = format_search_results(found.results)])
                      : outcome \in CallOutcomes}
               : mistake \in _should_make_mistake(p)}
        ELSE IF step.tool_required = "summarize"
        THEN UNION {
               IF mistake
               THEN {record(ToolExecution("summarize", FALSE, "Skipped intentionally", None))}
               ELSE IF st.search_data # ""
               THEN {LET summary == summarize_text(outcome)
                     IN  failing(outcome,
                           IF summary.raised
                           THEN record(ToolExecution("summarize", FALSE, None, "summarize failed"))
                           ELSE record(ToolExecution("summarize", TRUE,
                                    "Extracted " \o ToString(summary.key_points) \o " key points",
                                    None)))
                      : outcome \in CallOutcomes}
               ELSE {record(ToolExecution("summarize", FALSE, "No data to summarize", None))}
               : mistake \in _should_make_mistake(p)}
        ELSE {st}

RECURSIVE ExecuteFrom(_, _, _, _)
ExecuteFrom(steps, i, p, st) ==
    IF i > Len(steps) THEN {st}
    ELSE UNION {ExecuteFrom(steps, i + 1, p, next) : next \in ExecuteStep(steps[i], p, st)}

\* texts the language model can return as an answer
ModelAnswers ==
    {"Paris is the capital of France.",
     "Based on the provided data, I Cannot Answer the question."}

_answer_without_data ==
    ModelAnswers \cup {"I don't have enough information to answer this question."}

_generate_answer(search_data, p) ==
    UNION {IF search_data = "" /\ mistake
           THEN _answer_without_data
           ELSE ModelAnswers \cup {"Error generating answer: timeout"}
           : mistake \in _should_make_mistake(p)}

\* every [trace, failed_calls] execute_plan can return for the plan
execute_plan(pl, p) ==
    UNION {{[trace |-> [plan |-> pl, tools_executed |-> st.tools_executed,
                        final_answer |-> answer],
             failed_calls |-> st.failed_calls]
            : answer \in _generate_answer(st.search_data, p)}
           : st \in ExecuteFrom(pl.steps, 1, p,
                                [tools_executed |-> <<>>, search_data |-> "",
                                 failed_calls |-> {}])}

-----------------------------------------------------------------------------
(* memory/mistake_store.py: statistics *)

\* get_stats dividing whatever total_runs is
get_stats_AlwaysDivides(f, now) ==
    LET snapshot == load(f, now)
        total == snapshot.total_runs
        successful == snapshot.successful_runs
    IN  [total_runs |-> total,
         successful_runs |-> successful,
         failed_runs |-> total - successful,
         success_rate |-> <<successful * 100, total>>,
         total_mistakes |-> Len(snapshot.mistakes),
         recurring_patterns |->
             Len(SelectSeq(snapshot.mistakes, LAMBDA m : m.frequency >= 2))]

\* success_rate is the quotient of the pair <<numerator, denominator>>
get_stats(f, now) ==
    LET snapshot == load(f, now)
        total == snapshot.total_runs
        successful == snapshot.successful_runs
    IN  [total_runs |-> total,
         successful_runs |-> successful,
         failed_runs |-> total - successful,
         success_rate |-> IF total > 0 THEN <<successful * 100, total>> ELSE <<0, 1>>,
         total_mistakes |-> Len(snapshot.mistakes),
         recurring_patterns |->
             Len(SelectSeq(snapshot.mistakes, LAMBDA m : m.frequency >= 2))]

-----------------------------------------------------------------------------
(* agents/planner.py: create_plan *)

PlanStep(n, description, tool, reasoning) ==
    [step_number |-> n, description |-> description, tool_required |-> tool,
     reasoning |-> reasoning]

ResearchPlan(question, steps) == [question |-> question, steps |-> steps]

\* a fallback without its step
FallbackPlan_NoSteps(question) == ResearchPlan(question, <<>>)

FallbackPlan(question) ==
    ResearchPlan(question,
                 <<PlanStep(1, "Answer based on general knowledge", None,
                            "Fallback due to planning error")>>)

\* the instruction create_plan builds: its tier and the rule lines in it
BuildPrompt(rules, run_count) ==
    LET ordered == SortByPriorityDesc(rules)
        constraints == [i \in 1..Len(ordered) |-> ordered[i].rule_text]
        has_learned == Len(rules) > 0
    IN  IF run_count < 2
        THEN [tier |-> "very weak", constraints |-> <<>>, has_learned |-> has_learned]
        ELSE IF run_count < 4
        THEN [tier |-> "weak", constraints |-> IF has_learned THEN constraints ELSE <<>>,
              has_learned |-> has_learned]
        ELSE [tier |-> "strong", constraints |-> constraints, has_learned |-> has_learned]

\* tools a model-written step can name
StepTools == {None, "web_search", "summarize", "calculator"}

\* replies of the language model to the planning instruction: the call
\* raises, the content is not JSON ("malformed"), it is JSON that
\* ResearchPlan rejects ("invalid"), or it is a plan
PlanReplies ==
    {[kind |-> k, tools |-> <<>>] : k \in {"raises", "malformed", "invalid"}}
    \cup {[kind |-> "plan", tools |-> t] : t \in SeqsUpTo(StepTools, MaxSteps) \ {<<>>}}

create_plan(question, reply) ==
    IF reply.kind = "plan"
    THEN ResearchPlan(question,
                      [i \in 1..Len(reply.tools) |->
                          PlanStep(i, "step", reply.tools[i], "why")])
    ELSE FallbackPlan(question)

-----------------------------------------------------------------------------
(* main.py: ResearchAgent and the command line *)

\* --mistake-rate values, in percent (0.0 is the default, 1.0 the largest)
MistakeRates == {0, 100}

\* the probability ResearchAgent.__init__ hands to the ExecutorAgent
AutoMistakeProbability(given, total_runs) ==
    IF given = 0
    THEN IF total_runs < 3 THEN 60 ELSE IF total_runs < 5 THEN 30 ELSE 0
    ELSE given

Init ==
    /\ file = WriteText(initial_data)
    /\ evicted = <<>>
    /\ clock = 0
    /\ learned_rules = <<>>
    /\ mistake_probability = 0
    /\ pc = "no agent"
    /\ prompt = NoPrompt
    /\ plan = NoPlan
    /\ trace = NoTrace
    /\ failed_calls = {}
    /\ evaluation = NoEvaluation
    /\ mistakes = <<>>
    /\ call = NoCall
    /\ processes = NoProcesses

\* agent = ResearchAgent(mistake_probability=given)
NewAgent ==
    \E given \in MistakeRates :
        /\ pc \in {"no agent", "idle"}
        /\ mistake_probability' =
               AutoMistakeProbability(given, get_stats(file, clock).total_runs)
        /\ learned_rules' = _apply_learning(file, clock, <<>>)
        /\ pc' = "idle"
        /\ UNCHANGED <<file, evicted, clock, prompt, plan, trace, failed_calls,
                       evaluation, mistakes, call, processes>>

\* research, step 1: plan = self.planner.create_plan(question)
Plan ==
    /\ pc = "idle"
    /\ get_stats(file, clock).total_runs < MaxRuns
    /\ prompt' = BuildPrompt(learned_rules, get_stats(file, clock).total_runs)
    /\ \E question \in Questions, reply \in PlanReplies :
           plan' = create_plan(question, reply)
    /\ pc' = "planned"
    /\ UNCHANGED <<file, evicted, clock, learned_rules, mistake_probability,
                   trace, failed_calls, evaluation, mistakes, call, processes>>

\* research, step 2: trace = self.executor.execute_plan(plan)
Execute ==
    /\ pc = "planned"
    /\ \E result \in execute_plan(plan, mistake_probability) :
           /\ trace' = result.trace
           /\ failed_calls' = result.failed_calls
    /\ pc' = "executed"
    /\ UNCHANGED <<file, evicted, clock, learned_rules, mistake_probability,
                   prompt, plan, evaluation, mistakes, call, processes>>

\* research learning from every evaluation that lists an issue
Learn_Always ==
    /\ pc = "evaluated"
    /\ pc' = "learned"
    /\ IF evaluation.issues # <<>>
       THEN LET found == analyze_failure(trace, evaluation, clock)
                result == add_mistakes(file, found, clock + Len(found))
            IN  /\ mistakes' = found
                /\ clock' = clock + Len(found)
                /\ IF found # <<>>
                   THEN file' = result.file /\ evicted' = result.evicted
                   ELSE UNCHANGED <<file, evicted>>
       ELSE UNCHANGED <<file, evicted, clock, mistakes>>
    /\ UNCHANGED <<learned_rules, mistake_probability, prompt, plan, trace,
                   failed_calls, evaluation, call, processes>>

\* research, step 4: learn if the evaluation failed
Learn ==
    /\ pc = "evaluated"
    /\ pc' = "learned"
    /\ IF ~evaluation.passed
       THEN LET found == analyze_failure(trace, evaluation, clock)
                result == add_mistakes(file, found, clock + Len(found))
            IN  /\ mistakes' = found
                /\ clock' = clock + Len(found)
                /\ IF found # <<>>
                   THEN file' = result.file /\ evicted' = result.evicted
                   ELSE UNCHANGED <<file, evicted>>
       ELSE UNCHANGED <<file, evicted, clock, mistakes>>
    /\ UNCHANGED <<learned_rules, mistake_probability, prompt, plan, trace,
                   failed_calls, evaluation, call, processes>>

\* research, last step: self.memory.update_stats(success=evaluation.passed);
\* research returns and its locals are gone
RecordRun ==
    /\ pc = "learned"
    /\ file' = update_stats(file, evaluation.passed, clock)
    /\ pc' = "idle"
    /\ prompt' = NoPrompt
    /\ plan' = NoPlan
    /\ trace' = NoTrace
    /\ failed_calls' = {}
    /\ evaluation' = NoEvaluation
    /\ mistakes' = <<>>
    /\ UNCHANGED <<evicted, clock, learned_rules, mistake_probability, call, processes>>

Next == NewAgent \/ Plan \/ Execute \/ Evaluate \/ Learn \/ RecordRun

Spec == Init /\ [][Next]_vars

-----------------------------------------------------------------------------
(* Properties of evaluate and analyze_failure, under SpecEval *)

Evaluated == pc \in {"evaluated", "analyzed"}

\* positions in trace.tools_executed of the executed records of a tool
ExecutedAt(name) ==
    {i \in 1..Len(trace.tools_executed) :
        trace.tools_executed[i].tool_name = name /\ trace.tools_executed[i].executed}

\* positions in trace.tools_executed of all records of a tool
RecordedAt(name) ==
    {i \in 1..Len(trace.tools_executed) : trace.tools_executed[i].tool_name = name}

TrueChecks ==
    Cardinality({c \in {"required_tools_used", "correct_sequence_followed",
                        "answer_supported_by_data"} : evaluation[c]})

\* C1: the score evaluate returns is (number of true sub-checks)/3, one of
\* 0, 1/3, 2/3, 1, and passed holds exactly when at least 2 sub-checks hold
C1_ScoreIsThirds ==
    Evaluated =>
        /\ evaluation.score = <<TrueChecks, 3>>
        /\ evaluation.score \in {<<0, 3>>, <<1, 3>>, <<2, 3>>, <<3, 3>>}
        /\ evaluation.passed <=> TrueChecks >= 2

\* an evaluation with exactly two true sub-checks, which passes
C1_Witness == Evaluated /\ TrueChecks = 2 /\ evaluation.passed

\* the category the claim gives for an issue string
ClaimedCategory(issue) ==
    IF issue = ISSUE_TOOL THEN TOOL_SKIPPED
    ELSE IF issue = ISSUE_SEQUENCE THEN WRONG_ORDER
    ELSE IF ExecutedAt("web_search") = {} THEN PREMATURE_ANSWER
    ELSE UNSUPPORTED_CLAIM

\* C3: analyze_failure turns every issue evaluate emits into one Mistake of
\* the category of that issue: tool issue -> TOOL_SKIPPED, sequence issue ->
\* WRONG_ORDER, support issue -> PREMATURE_ANSWER or UNSUPPORTED_CLAIM
C3_EveryIssueClassified ==
    pc = "analyzed" =>
        /\ Len(mistakes) = Len(evaluation.issues)
        /\ \A i \in 1..Len(mistakes) :
               mistakes[i].mistake_type = ClaimedCategory(evaluation.issues[i])

\* C8: the sequence check holds exactly when web_search is among the executed
\* tools and no executed summarize comes at or before the first executed web_search
C8_SequenceCheck ==
    Evaluated =>
        (evaluation.correct_sequence_followed <=>
            \E i \in ExecutedAt("web_search") : \A j \in ExecutedAt("summarize") : i < j)

\* web_search executed, summarize did not, and the check holds
C8_Witness ==
    /\ Evaluated
    /\ ExecutedAt("web_search") # {}
    /\ ExecutedAt("summarize") = {}
    /\ RecordedAt("summarize") # {}
    /\ evaluation.correct_sequence_followed

\* C9 as stated: when a summarize record comes before the first web_search
\* record of trace.tools_executed, the sequence check is false
C9_RecordedOrder ==
    Evaluated =>
        ((\E j \in RecordedAt("summarize") : \A i \in RecordedAt("web_search") : j < i)
             /\ RecordedAt("web_search") # {}
         => ~evaluation.correct_sequence_followed)

\* C9 amended: when an executed summarize record comes before the first
\* executed web_search record, the sequence check is false
C9_ExecutedOrder ==
    Evaluated =>
        ((\E j \in ExecutedAt("summarize") : \A i \in ExecutedAt("web_search") : j < i)
             /\ ExecutedAt("web_search") # {}
         => ~evaluation.correct_sequence_followed)

\* both tools executed, summarize first, and the check is false
C9_Witness ==
    /\ Evaluated
    /\ ExecutedAt("web_search") # {}
    /\ \E j \in ExecutedAt("summarize") : \A i \in ExecutedAt("web_search") : j < i
    /\ ~evaluation.correct_sequence_followed

\* C10: the support check holds exactly when a web_search record is executed
\* or the lower-cased final answer contains an admission phrase; a trace with
\* no tool executions that says "I don't have enough information" passes it
C10_SupportCheck ==
    Evaluated =>
        /\ evaluation.answer_supported_by_data <=>
               \/ ExecutedAt("web_search") # {}
               \/ \E phrase \in AdmissionPhrases : Contains(Lower(trace.final_answer), phrase)
        /\ (trace.tools_executed = <<>>
               /\ Contains(trace.final_answer, "I don't have enough information")
            => evaluation.answer_supported_by_data)

\* nothing executed, the answer admits the lack of data in capitals
C10_Witness ==
    /\ Evaluated
    /\ trace.tools_executed = <<>>
    /\ trace.final_answer = "There is NO DATA about this."
    /\ evaluation.answer_supported_by_data

-----------------------------------------------------------------------------
(* Properties of the store, under SpecStore *)

\* the mistake list a load of the file returns
Stored == load(file, clock).mistakes

EntriesOf(ms, c) == {i \in 1..Len(ms) : ms[i].mistake_type = c}

FrequencyOf(ms, c) ==
    IF EntriesOf(ms, c) = {} THEN 0 ELSE ms[CHOOSE i \in EntriesOf(ms, c) : TRUE].frequency

\* in SpecStore only add_mistakes reads the clock; mistakes is its argument
AddMistakesStep == clock' > clock

\* C4 as stated: after any add_mistakes call every category of new_mistakes
\* has exactly one stored entry, its frequency raised by the number of new
\* mistakes of that category
C4_OneEntryPerCategory ==
    [][AddMistakesStep =>
         LET before == file.data.mistakes
             after == file'.data.mistakes
         IN  \A i \in 1..Len(mistakes') :
                 LET c == mistakes'[i].mistake_type
                 IN  /\ Cardinality(EntriesOf(after, c)) = 1
                     /\ FrequencyOf(after, c) =
                            FrequencyOf(before, c) + Cardinality(EntriesOf(mistakes', c))]_vars

\* C4 amended: after any add_mistakes call every category of new_mistakes has
\* at most one stored entry; unless the cap evicted it in this call it has
\* exactly one, its frequency raised by the number of new mistakes of it
C4_OneEntryUnlessEvicted ==
    [][AddMistakesStep =>
         LET before == file.data.mistakes
             after == file'.data.mistakes
         IN  \A i \in 1..Len(mistakes') :
                 LET c == mistakes'[i].mistake_type
                 IN  /\ Cardinality(EntriesOf(after, c)) <= 1
                     /\ EntriesOf(evicted', c) = {} =>
                            /\ Cardinality(EntriesOf(after, c)) = 1
                            /\ FrequencyOf(after, c) =
                                   FrequencyOf(before, c) + Cardinality(EntriesOf(mistakes', c))]_vars

\* two mistakes of one category went in with one call and are stored as one
\* entry counted twice more than before
C4_Witness ==
    /\ Len(mistakes) = 2
    /\ mistakes[1].mistake_type = mistakes[2].mistake_type
    /\ Cardinality(EntriesOf(Stored, mistakes[1].mistake_type)) = 1
    /\ FrequencyOf(Stored, mistakes[1].mistake_type) >= 3
    /\ evicted = <<>>

\* C5: the stored list never exceeds MAX_MISTAKES_STORED, and no entry cut
\* off by add_mistakes has a higher frequency than an entry it kept
C5_CapAndEvictionOrder ==
    LET stored == Stored
    IN  /\ Len(stored) <= MAX_MISTAKES_STORED
        /\ evicted # <<>> /\ stored # <<>> => MaxFrequency(evicted) <= MinFrequency(stored)

\* an eviction happened: the store is full and an entry seen once was cut
\* off while entries seen more often stay
C5_Witness ==
    /\ Len(Stored) = MAX_MISTAKES_STORED
    /\ evicted # <<>>
    /\ \E e \in 1..Len(evicted) : \E r \in 1..Len(Stored) :
           evicted[e].frequency < Stored[r].frequency

-----------------------------------------------------------------------------
(* Properties of research runs, under Spec *)

\* the rule derived for a category from the stored list, as _apply_learning
\* derives it
DerivedRules == generate_constraints(Stored)

RulesFor(c) ==
    {i \in 1..Len(DerivedRules) : DerivedRules[i].rule_id = _generate_rule_id(c)}

ThreeFailedRuns ==
    /\ pc = "idle"
    /\ get_stats(file, clock).total_runs = 3
    /\ get_stats(file, clock).failed_runs = 3

\* C2 (scenario B): after three failed runs on an empty store that each
\* recorded a TOOL_SKIPPED mistake, one TOOL_SKIPPED entry of frequency 3 is
\* stored and the rule derived from the stored list for it has priority
\* min(10, 3 + stored frequency) = 6
C2_ScenarioB ==
    ThreeFailedRuns =>
        /\ Cardinality(EntriesOf(Stored, TOOL_SKIPPED)) = 1
        /\ FrequencyOf(Stored, TOOL_SKIPPED) = 3
        /\ \A i \in RulesFor(TOOL_SKIPPED) :
               /\ DerivedRules[i].priority = Min(10, 3 + FrequencyOf(Stored, TOOL_SKIPPED))
               /\ DerivedRules[i].priority = 6

\* number of steps among the first n of the plan that name one of the two tools
ToolSteps(pl, n) ==
    Cardinality({i \in 1..n : pl.steps[i].tool_required \in {"web_search", "summarize"}})

Executed == pc \in {"executed", "evaluated", "learned"}

\* C6: a step whose search or summarization call failed is recorded with
\* executed=false and an error, and the steps after it are still carried out
C6_FailureRecorded ==
    Executed =>
        /\ Len(trace.tools_executed) = ToolSteps(plan, Len(plan.steps))
        /\ \A n \in failed_calls :
               LET record == trace.tools_executed[ToolSteps(plan, n)]
               IN  ~record.executed /\ record.error # None

\* C7: when a run plans on a store that holds mistakes, the planner's active
\* rules are the rules derived from the store as it is now
C7_PlansUnderStoredRules ==
    pc = "planned" /\ Stored # <<>> =>
        learned_rules = inject_learning(DerivedRules)

-----------------------------------------------------------------------------
(* generate_learning_rules called on any list of mistakes a caller can build *)

RuleCategories == {TOOL_SKIPPED, WRONG_ORDER, PREMATURE_ANSWER}

\* Mistake objects built one after the other, each with its own rule text
BuiltMistakes(types) ==
    [i \in 1..Len(types) |->
        _create_mistake(types[i], "Failure of kind " \o types[i],
                        "Rule noted at " \o ToString(i),
                        "Who invented the telephone?", i)]

InitRules ==
    /\ file = WriteText(initial_data)
    /\ evicted = <<>>
    /\ clock = 0
    /\ learned_rules = <<>>
    /\ mistake_probability = 0
    /\ pc = "idle"
    /\ prompt = NoPrompt
    /\ plan = NoPlan
    /\ trace = NoTrace
    /\ failed_calls = {}
    /\ evaluation = NoEvaluation
    /\ mistakes \in {BuiltMistakes(types) : types \in SeqsUpTo(RuleCategories, MaxMistakes)}
    /\ call = NoCall
    /\ processes = NoProcesses

\* rules = learner.generate_learning_rules(mistakes)
GenerateLearningRules ==
    /\ call = NoCall
    /\ UNCHANGED processes
    /\ call' = Call("generate_learning_rules", mistakes, generate_learning_rules(mistakes))
    /\ UNCHANGED <<file, evicted, clock, learned_rules, mistake_probability, pc,
                   prompt, plan, trace, failed_calls, evaluation, mistakes>>

NextRules == GenerateLearningRules

SpecRules == InitRules /\ [][NextRules]_vars

\* the rules returned for a category
RulesOf(rules, c) == {i \in 1..Len(rules) : rules[i].rule_id = _generate_rule_id(c)}

\* C11: generate_learning_rules returns exactly one rule per distinct category
\* of its input, each applying to "planning" with priority
\* min(10, 3 + number of input mistakes of the category), so never above 10
\* and non-decreasing in that number, and the list is sorted by
\* non-increasing priority
C11_OneRulePerCategory ==
    call.op = "generate_learning_rules" =>
        LET ms == call.arg
            rules == call.result
            categories == {ms[i].mistake_type : i \in 1..Len(ms)}
            count(c) == Cardinality(EntriesOf(ms, c))
            priority(c) == rules[CHOOSE i \in RulesOf(rules, c) : TRUE].priority
        IN  /\ Len(rules) = Cardinality(categories)
            /\ \A c \in categories :
                   /\ Cardinality(RulesOf(rules, c)) = 1
                   /\ priority(c) = Min(10, 3 + count(c))
            /\ \A i \in 1..Len(rules) :
                   rules[i].applies_to = "planning" /\ rules[i].priority <= 10
            /\ \A c, d \in categories : count(c) <= count(d) => priority(c) <= priority(d)
            /\ \A i, j \in 1..Len(rules) : i < j => rules[i].priority >= rules[j].priority

\* a list that starts with a category seen once and holds another eight
\* times: two rules, the capped one first
C11_Witness ==
    /\ call.op = "generate_learning_rules"
    /\ Len(call.arg) = 9
    /\ Cardinality(EntriesOf(call.arg, call.arg[1].mistake_type)) = 1
    /\ Len(call.result) = 2
    /\ call.result[1].priority = 10
    /\ call.result[2].priority = 4

-----------------------------------------------------------------------------
(* analyze_failure called on any evaluation a caller can build, and its *)
(* result stored in an empty store                                       *)

\* issue texts: the three of the evaluator and one written by hand
IssueTexts ==
    {ISSUE_TOOL, ISSUE_SEQUENCE, ISSUE_SUPPORT, "Answer is not supported by the search data"}

BuiltEvaluations ==
    {[NoEvaluation EXCEPT !.issues = issues] : issues \in SeqsUpTo(IssueTexts, MaxIssues)}

BuiltTraces ==
    {[plan |-> [question |-> q, steps |-> <<>>], tools_executed |-> te,
      final_answer |-> "Paris is the capital of France."] :
        q \in Questions,
        te \in {<<>>, <<ToolExecution("web_search", TRUE, "Found 5 results", None)>>}}

InitLearner ==
    /\ file = WriteText(initial_data)
    /\ evicted = <<>>
    /\ clock = 0
    /\ learned_rules = <<>>
    /\ mistake_probability = 0
    /\ pc = "evaluated"
    /\ prompt = NoPrompt
    /\ plan = NoPlan
    /\ trace \in BuiltTraces
    /\ failed_calls = {}
    /\ evaluation \in BuiltEvaluations
    /\ mistakes = <<>>
    /\ call = NoCall
    /\ processes = NoProcesses

\* if mistakes: self.memory.add_mistakes(mistakes)
StoreMistakes ==
    /\ pc = "analyzed"
    /\ mistakes # <<>>
    /\ LET result == add_mistakes(file, mistakes, clock)
       IN  file' = result.file /\ evicted' = result.evicted
    /\ UNCHANGED processes
    /\ call' = Call("add_mistakes", mistakes, None)
    /\ pc' = "stored"
    /\ UNCHANGED <<clock, learned_rules, mistake_probability, prompt, plan, trace,
                   failed_calls, evaluation, mistakes>>

NextLearner == AnalyzeFailure \/ StoreMistakes

SpecLearner == InitLearner /\ [][NextLearner]_vars

\* C12 (scenario A): for an evaluation whose issues are exactly the
\* "web_search was not executed" issue and an empty store, analyze_failure
\* yields exactly one Mistake, of category TOOL_SKIPPED, and after storing it
\* the rule derived for that category has priority 4
C12_ScenarioA ==
    evaluation.issues = <<ISSUE_TOOL>> =>
        /\ pc \in {"analyzed", "stored"} =>
               Len(mistakes) = 1 /\ mistakes[1].mistake_type = TOOL_SKIPPED
        /\ pc = "stored" =>
               /\ Cardinality(RulesFor(TOOL_SKIPPED)) = 1
               /\ \A i \in RulesFor(TOOL_SKIPPED) : DerivedRules[i].priority = 4

\* the one TOOL_SKIPPED mistake of scenario A is stored with frequency 1 and
\* its rule is derived
C12_Witness ==
    /\ pc = "stored"
    /\ evaluation.issues = <<ISSUE_TOOL>>
    /\ Len(Stored) = 1
    /\ FrequencyOf(Stored, TOOL_SKIPPED) = 1
    /\ RulesFor(TOOL_SKIPPED) # {}

-----------------------------------------------------------------------------
(* The file read and written call by call, whatever it holds: written by *)
(* save, left by an older version, edited by hand or damaged             *)

TopFields == {"mistakes", "version", "total_runs", "successful_runs"}

MistakeFields ==
    {"mistake_type", "description", "corrective_rule", "frequency", "timestamp", "question"}

\* the dict d with the keys K only
Restrict(d, K) == [k \in K |-> d[k]]

SnapshotMistakes ==
    {StoredMistake(1, 1), [StoredMistake(2, 3) EXCEPT !.timestamp = 5]}

\* MemorySnapshot objects a caller builds
AnySnapshots ==
    {[mistakes |-> ms, version |-> v, total_runs |-> t, successful_runs |-> u] :
        ms \in SeqsUpTo(SnapshotMistakes, MaxSaved), v \in {"1.0", "2.0"},
        t \in {0, MaxRuns}, u \in {0, 1}}

\* a mistake entry of the file: complete, without the fields that have a
\* default, or without a field Mistake requires
MistakeDicts ==
    UNION {{Restrict(model_dump(m), F) :
               F \in {MistakeFields, MistakeFields \ {"frequency", "timestamp"},
                      MistakeFields \ {"question"}}} :
           m \in SnapshotMistakes}

\* JSON objects the file can hold: any of the four fields may be absent
FileRecords ==
    {Restrict([mistakes |-> ds, version |-> v, total_runs |-> t, successful_runs |-> u], K) :
        ds \in SeqsUpTo(MistakeDicts, MaxSaved), v \in {"1.0", "2.0"},
        t \in {0, MaxRuns}, u \in {0, 1}, K \in SUBSET TopFields}

\* text json.loads rejects
Unparsable == [parses |-> FALSE, data |-> <<>>]

AnyFiles == {Unparsable} \cup {WriteText(d) : d \in FileRecords}

InitFile ==
    /\ file \in AnyFiles
    /\ evicted = <<>>
    /\ clock = 0
    /\ learned_rules = <<>>
    /\ mistake_probability = 0
    /\ pc = "idle"
    /\ prompt = NoPrompt
    /\ plan = NoPlan
    /\ trace = NoTrace
    /\ failed_calls = {}
    /\ evaluation = NoEvaluation
    /\ mistakes = <<>>
    /\ call = NoCall
    /\ processes = NoProcesses

\* store.save(snapshot)
Save ==
    \E snapshot \in AnySnapshots :
        /\ file' = save(snapshot)
        /\ UNCHANGED processes
        /\ call' = Call("save", snapshot, None)
        /\ UNCHANGED <<evicted, clock, learned_rules, mistake_probability, pc,
                       prompt, plan, trace, failed_calls, evaluation, mistakes>>

\* snapshot = store.load()
Load ==
    /\ UNCHANGED processes
    /\ call' = Call("load", None, load(file, clock))
    /\ UNCHANGED <<file, evicted, clock, learned_rules, mistake_probability, pc,
                   prompt, plan, trace, failed_calls, evaluation, mistakes>>

\* stats = store.get_stats()
GetStats ==
    /\ UNCHANGED processes
    /\ call' = Call("get_stats", None, get_stats(file, clock))
    /\ UNCHANGED <<file, evicted, clock, learned_rules, mistake_probability, pc,
                   prompt, plan, trace, failed_calls, evaluation, mistakes>>

NextFile == Save \/ Load \/ GetStats \/ Clear

SpecFile == InitFile /\ [][NextFile]_vars

\* C13: after save(s) a load of the file returns s: the same ordered mistake
\* list with all six fields of every mistake, version and both counters
C13_RoundTrip ==
    call.op = "save" => load(file, clock) = call.arg

\* a snapshot of two mistakes, one stamped later than the clock reads now,
\* with a version other than the default and counted runs came back
C13_Witness ==
    /\ call.op = "save"
    /\ Len(call.arg.mistakes) = 2
    /\ \E i \in 1..2 : call.arg.mistakes[i].timestamp > clock
    /\ call.arg.version = "2.0"
    /\ call.arg.total_runs > 0
    /\ load(file, clock) = call.arg

\* the snapshot holds what the JSON object holds: a field of the object is
\* kept, an absent one has its default
KeptOrDefault(data, snapshot, now) ==
    /\ snapshot.version = (IF "version" \in DOMAIN data THEN data["version"] ELSE "1.0")
    /\ snapshot.total_runs = (IF "total_runs" \in DOMAIN data THEN data["total_runs"] ELSE 0)
    /\ snapshot.successful_runs =
           (IF "successful_runs" \in DOMAIN data THEN data["successful_runs"] ELSE 0)
    /\ IF "mistakes" \in DOMAIN data
       THEN /\ Len(snapshot.mistakes) = Len(data["mistakes"])
            /\ \A i \in 1..Len(snapshot.mistakes) :
                   LET entry == data["mistakes"][i]
                       mistake == snapshot.mistakes[i]
                   IN  /\ \A k \in DOMAIN entry : mistake[k] = entry[k]
                       /\ "frequency" \notin DOMAIN entry => mistake.frequency = 1
                       /\ "timestamp" \notin DOMAIN entry => mistake.timestamp = now
       ELSE snapshot.mistakes = <<>>

\* every mistake entry of the JSON object has the fields Mistake requires
Builds(data) ==
    "mistakes" \in DOMAIN data =>
        \A i \in 1..Len(data["mistakes"]) :
            {"mistake_type", "description", "corrective_rule", "question"}
                \subseteq DOMAIN data["mistakes"][i]

\* C14 as stated: load returns a snapshot whatever the file holds: the empty
\* snapshot (no mistakes, version "1.0", counters 0) when the content is not
\* JSON, and for a JSON object its fields, an absent one defaulted
C14_DefaultsWhenJson ==
    call.op = "load" =>
        /\ DOMAIN call.result = TopFields
        /\ IF ~file.parses THEN call.result = EmptySnapshot
           ELSE KeptOrDefault(file.data, call.result, clock)

\* C14 amended: load returns the empty snapshot when the content is not JSON
\* or holds a mistake entry that lacks a required field; otherwise the fields
\* of the JSON object are kept and an absent one has its default (mistakes
\* empty, version "1.0", counters 0; in an entry frequency 1, timestamp now)
C14_DefaultsWhenBuilt ==
    call.op = "load" =>
        /\ DOMAIN call.result = TopFields
        /\ IF ~file.parses \/ ~Builds(file.data) THEN call.result = EmptySnapshot
           ELSE KeptOrDefault(file.data, call.result, clock)

\* a file without version and successful_runs, whose one entry has neither
\* frequency nor timestamp, was loaded: counted runs kept, the rest defaulted
C14_Witness ==
    /\ call.op = "load"
    /\ file.parses
    /\ DOMAIN file.data = {"mistakes", "total_runs"}
    /\ file.data["total_runs"] > 0
    /\ Len(file.data["mistakes"]) = 1
    /\ "frequency" \notin DOMAIN file.data["mistakes"][1]
    /\ call.result.total_runs = file.data["total_runs"]
    /\ call.result.version = "1.0"
    /\ Len(call.result.mistakes) = 1
    /\ call.result.mistakes[1].frequency = 1

\* C16: get_stats never divides by zero: with total_runs 0 it reports
\* success_rate 0; failed_runs = total_runs - successful_runs, total_mistakes
\* is the number of stored mistakes and recurring_patterns the number of
\* them with frequency at or above MISTAKE_FREQUENCY_THRESHOLD
C16_StatsWithoutDivision ==
    call.op = "get_stats" =>
        LET stats == call.result
            snapshot == load(file, clock)
        IN  /\ stats.success_rate[2] # 0
            /\ snapshot.total_runs = 0 => stats.success_rate[1] = 0
            /\ snapshot.total_runs > 0 =>
                   stats.success_rate = <<snapshot.successful_runs * 100, snapshot.total_runs>>
            /\ stats.total_runs = snapshot.total_runs
            /\ stats.successful_runs = snapshot.successful_runs
            /\ stats.failed_runs = snapshot.total_runs - snapshot.successful_runs
            /\ stats.total_mistakes = Len(snapshot.mistakes)
            /\ stats.recurring_patterns =
                   Cardinality({i \in 1..Len(snapshot.mistakes) :
                                   snapshot.mistakes[i].frequency >= MISTAKE_FREQUENCY_THRESHOLD})

\* statistics of a store that holds two mistakes, one of them recurring, and
\* no counted run
C16_Witness ==
    /\ call.op = "get_stats"
    /\ load(file, clock).total_runs = 0
    /\ call.result.success_rate[1] = 0
    /\ call.result.total_mistakes = 2
    /\ call.result.recurring_patterns = 1

\* C17: after clear(), whatever the file held, load returns the empty
\* snapshot: no mistakes, version "1.0", total_runs and successful_runs 0
C17_ClearResetsAll ==
    call.op = "clear" =>
        LET snapshot == load(file, clock)
        IN  /\ snapshot.mistakes = <<>>
            /\ snapshot.version = "1.0"
            /\ snapshot.total_runs = 0
            /\ snapshot.successful_runs = 0

\* the store was cleared and reports no run and no mistake
C17_Witness ==
    /\ call.op = "clear"
    /\ load(file, clock) = EmptySnapshot
    /\ get_stats(file, clock).total_runs = 0
    /\ get_stats(file, clock).total_mistakes = 0

-----------------------------------------------------------------------------
(* Properties of the run counters, under SpecStore *)

C15_CountersOrdered ==
    file.data.total_runs >= file.data.successful_runs /\ file.data.successful_runs >= 0

C15_UpdateStatsStep ==
    call'.op = "update_stats" =>
        /\ file'.data.total_runs = file.data.total_runs + 1
        /\ file'.data.successful_runs =
               file.data.successful_runs + (IF call'.arg THEN 1 ELSE 0)
        /\ file'.data.mistakes = file.data.mistakes

\* C15: in every state reached from a new or cleared store by update_stats,
\* add_mistakes and clear, total_runs >= successful_runs >= 0; update_stats
\* raises total_runs by exactly 1 and successful_runs by 1 iff success, and
\* leaves the mistake list as it was
C15_RunCounters == [](C15_CountersOrdered) /\ [][C15_UpdateStatsStep]_vars

\* a failed run was counted after a successful one on a store with mistakes
C15_Witness ==
    /\ call.op = "update_stats"
    /\ call.arg = FALSE
    /\ load(file, clock).total_runs = 2
    /\ load(file, clock).successful_runs = 1
    /\ Stored # <<>>

-----------------------------------------------------------------------------
(* The planner called on its own: rules injected and plans asked for in *)
(* any order, on a store that has counted any number of runs            *)

RuleSet ==
    {LearningRule(_generate_rule_id(TOOL_SKIPPED),
                  "ALWAYS execute web_search before attempting to answer research questions",
                  "planning", 4),
     LearningRule(_generate_rule_id(WRONG_ORDER),
                  "ALWAYS execute web_search BEFORE summarize", "planning", 6),
     LearningRule(_generate_rule_id(UNSUPPORTED_CLAIM),
                  "ALWAYS base answers strictly on search results", "execution", 5)}

AnyRules == SeqsUpTo(RuleSet, MaxRules)

InitPlanner ==
    /\ \E n \in 0..MaxCount :
           file = save([EmptySnapshot EXCEPT !.total_runs = n])
    /\ evicted = <<>>
    /\ clock = 0
    /\ learned_rules = <<>>
    /\ mistake_probability = 0
    /\ pc = "idle"
    /\ prompt = NoPrompt
    /\ plan = NoPlan
    /\ trace = NoTrace
    /\ failed_calls = {}
    /\ evaluation = NoEvaluation
    /\ mistakes = <<>>
    /\ call = NoCall
    /\ processes = NoProcesses

\* planner.inject_learning(rules); what the last create_plan built is gone
InjectLearning ==
    \E rules \in AnyRules :
        /\ learned_rules' = inject_learning(rules)
        /\ UNCHANGED processes
        /\ call' = Call("inject_learning", rules, None)
        /\ prompt' = NoPrompt
        /\ plan' = NoPlan
        /\ UNCHANGED <<file, evicted, clock, mistake_probability, pc, trace,
                       failed_calls, evaluation, mistakes>>

\* plan = planner.create_plan(question)
CreatePlan ==
    \E question \in Questions, reply \in PlanReplies :
        /\ prompt' = BuildPrompt(learned_rules, get_stats(file, clock).total_runs)
        /\ plan' = create_plan(question, reply)
        /\ UNCHANGED processes
        /\ call' = Call("create_plan", [question |-> question, reply |-> reply],
                        create_plan(question, reply))
        /\ UNCHANGED <<file, evicted, clock, learned_rules, mistake_probability, pc,
                       trace, failed_calls, evaluation, mistakes>>

NextPlanner == InjectLearning \/ CreatePlan

SpecPlanner == InitPlanner /\ [][NextPlanner]_vars

\* C18: after inject_learning(rules) the planner's active rules are exactly
\* the elements of rules that apply to "planning", in the order of rules,
\* with nothing kept from earlier injections; an empty list clears them
C18_InjectReplaces ==
    call.op = "inject_learning" =>
        LET rules == call.arg
            planning == {i \in 1..Len(rules) : rules[i].applies_to = "planning"}
            rank(i) == Cardinality({j \in planning : j <= i})
        IN  /\ Len(learned_rules) = Cardinality(planning)
            /\ \A i \in planning : learned_rules[rank(i)] = rules[i]
            /\ rules = <<>> => learned_rules = <<>>

\* an execution rule and a planning rule were injected: the planning rule
\* alone is active
C18_Witness ==
    /\ call.op = "inject_learning"
    /\ Len(call.arg) = 2
    /\ call.arg[1].applies_to = "execution"
    /\ call.arg[2].applies_to = "planning"
    /\ learned_rules = <<call.arg[2]>>

\* C19: when the call to the language model raises or its output cannot be
\* made into a ResearchPlan, create_plan returns the fallback plan for the
\* question: exactly one step, numbered 1, with no required tool
C19_FallbackPlan ==
    call.op = "create_plan" /\ call.arg.reply.kind # "plan" =>
        /\ plan = call.result
        /\ plan.question = call.arg.question
        /\ Len(plan.steps) = 1
        /\ plan.steps[1].step_number = 1
        /\ plan.steps[1].tool_required = None

\* the model's output was not JSON and the one-step plan came back
C19_Witness ==
    /\ call.op = "create_plan"
    /\ call.arg.reply.kind = "malformed"
    /\ Len(plan.steps) = 1
    /\ plan.steps[1].tool_required = None
    /\ learned_rules # <<>>

-----------------------------------------------------------------------------
(* Properties of the planning instruction, under Spec *)

\* the texts of the rules in order of descending priority
RenderedRules(rules) ==
    LET ordered == SortByPriorityDesc(rules)
    IN  [i \in 1..Len(ordered) |-> ordered[i].rule_text]

-----------------------------------------------------------------------------
(* Properties of merging, under SpecStore *)

\* the entry of a category in a list that holds it
EntryOf(ms, c) == ms[CHOOSE i \in EntriesOf(ms, c) : TRUE]

\* the last mistake of a category in a list that holds it
LastOf(ms, c) ==
    ms[CHOOSE i \in EntriesOf(ms, c) : \A j \in EntriesOf(ms, c) : j <= i]

\* the categories of new_mistakes that were stored before the call and are
\* stored after it
Merged(before, new, after) ==
    {new[i].mistake_type : i \in 1..Len(new)}
        \cap {before[i].mistake_type : i \in 1..Len(before)}
        \cap {after[i].mistake_type : i \in 1..Len(after)}

\* C21 as stated: when add_mistakes merges a new mistake into a stored entry
\* of its category, the entry afterwards carries the corrective rule text and
\* the timestamp of the most recent occurrence, the new mistake
C21_LastRuleWins ==
    [][AddMistakesStep =>
         LET before == file.data.mistakes
             after == file'.data.mistakes
         IN  \A c \in Merged(before, mistakes', after) :
                 /\ EntryOf(after, c).corrective_rule = LastOf(mistakes', c).corrective_rule
                 /\ EntryOf(after, c).timestamp = LastOf(mistakes', c).timestamp]_vars

\* C21 amended: when add_mistakes merges a new mistake into a stored entry of
\* its category, the entry takes the timestamp of the new mistake and keeps
\* its own corrective rule text, description and question
C21_FirstRuleStays ==
    [][AddMistakesStep =>
         LET before == file.data.mistakes
             after == file'.data.mistakes
         IN  \A c \in Merged(before, mistakes', after) :
                 /\ EntryOf(after, c).corrective_rule = EntryOf(before, c).corrective_rule
                 /\ EntryOf(after, c).description = EntryOf(before, c).description
                 /\ EntryOf(after, c).question = EntryOf(before, c).question
                 /\ EntryOf(after, c).timestamp = LastOf(mistakes', c).timestamp]_vars

\* a mistake was merged into an entry left by earlier runs: the entry has the
\* new timestamp and a rule text other than the new mistake's
C21_Witness ==
    /\ call.op = "add_mistakes"
    /\ mistakes # <<>>
    /\ EntriesOf(Stored, mistakes[1].mistake_type) # {}
    /\ FrequencyOf(Stored, mistakes[1].mistake_type) >= 2
    /\ EntryOf(Stored, mistakes[1].mistake_type).timestamp
           = LastOf(mistakes, mistakes[1].mistake_type).timestamp
    /\ EntryOf(Stored, mistakes[1].mistake_type).corrective_rule
           # mistakes[1].corrective_rule

\* the categories a list holds, each with its frequency
Counted(ms) == {<<ms[i].mistake_type, ms[i].frequency>> : i \in 1..Len(ms)}

\* C27: when the store holds MAX_MISTAKES_STORED entries and add_mistakes is
\* called with one mistake of a category not stored, of frequency 1, the new
\* mistake is the one cut off: the stored categories and their frequencies
\* are after the call what they were before it
C27_FullStoreAdmitsNothing ==
    [][AddMistakesStep =>
         LET before == file.data.mistakes
             after == file'.data.mistakes
         IN  (/\ Len(before) = MAX_MISTAKES_STORED
              /\ Len(mistakes') = 1
              /\ mistakes'[1].frequency = 1
              /\ EntriesOf(before, mistakes'[1].mistake_type) = {})
             => /\ evicted' = mistakes'
                /\ EntriesOf(after, mistakes'[1].mistake_type) = {}
                /\ Len(after) = MAX_MISTAKES_STORED
                /\ Counted(after) = Counted(before)]_vars

\* one mistake of a new category was handed to a full store whose entries
\* were seen one to three times, and was cut off
C27_Witness ==
    /\ call.op = "add_mistakes"
    /\ Len(mistakes) = 1
    /\ evicted = mistakes
    /\ Len(Stored) = MAX_MISTAKES_STORED
    /\ EntriesOf(Stored, mistakes[1].mistake_type) = {}
    /\ MaxFrequency(Stored) > MinFrequency(Stored)

-----------------------------------------------------------------------------
(* Properties of execute_plan, under Spec *)

\* the tools the steps of a plan name, in step order, those steps left out
\* that name neither web_search nor summarize
RecordedTools(pl) ==
    SelectSeq([i \in 1..Len(pl.steps) |-> pl.steps[i].tool_required],
              LAMBDA t : t \in {"web_search", "summarize"})

\* C22: tools_executed holds, in the order of the plan's steps, one record for
\* each step that names web_search or summarize and none for any other step,
\* and every record with executed=false has an error or a non-empty
\* output_summary
C22_RecordsFollowSteps ==
    Executed =>
        /\ [i \in 1..Len(trace.tools_executed) |-> trace.tools_executed[i].tool_name]
               = RecordedTools(plan)
        /\ \A i \in 1..Len(trace.tools_executed) :
               LET record == trace.tools_executed[i]
               IN  ~record.executed =>
                       \/ record.error # None
                       \/ record.output_summary \notin {None, ""}

\* a plan whose first step names no recorded tool and whose second step is a
\* summarize step that found nothing to summarize
C22_Witness ==
    /\ Executed
    /\ Len(plan.steps) >= 2
    /\ plan.steps[1].tool_required \notin {"web_search", "summarize"}
    /\ plan.steps[2].tool_required = "summarize"
    /\ Len(trace.tools_executed) < Len(plan.steps)
    /\ ~trace.tools_executed[1].executed
    /\ trace.tools_executed[1].output_summary = "No data to summarize"

\* C24: in a trace of execute_plan a summarize record is executed only after
\* an executed web_search record; so on such traces the sequence check equals
\* the tool check, the score is 0, 1/3 or 1 and never 2/3, and the evaluation
\* passes exactly when a web_search record is executed
C24_SummarizeNeedsSearch ==
    /\ Executed =>
           \A i \in ExecutedAt("summarize") :
               \E j \in ExecutedAt("web_search") : j < i
    /\ pc \in {"evaluated", "learned"} =>
           /\ evaluation.correct_sequence_followed = evaluation.required_tools_used
           /\ evaluation.score \in {<<0, 3>>, <<1, 3>>, <<3, 3>>}
           /\ evaluation.passed <=> ExecutedAt("web_search") # {}

\* a plan that summarizes before it searches: the summarize step found no
\* data, the search ran, and the evaluation passed with all three checks
C24_Witness ==
    /\ pc = "evaluated"
    /\ Len(trace.tools_executed) = 2
    /\ trace.tools_executed[1].tool_name = "summarize"
    /\ ~trace.tools_executed[1].executed
    /\ ExecutedAt("web_search") = {2}
    /\ evaluation.passed
    /\ evaluation.score = <<3, 3>>

-----------------------------------------------------------------------------
(* Properties of sequential research runs from an empty store, under Spec *)

RunBoundary == pc \in {"no agent", "idle"}

FailedRuns == get_stats(file, clock).failed_runs

\* C25: between research runs that started from an empty store, only
\* TOOL_SKIPPED and WRONG_ORDER are stored (never PREMATURE_ANSWER or
\* UNSUPPORTED_CLAIM), each with a frequency equal to the number of failed
\* runs, and each absent exactly when no run has failed
C25_StoredMirrorsFailedRuns ==
    RunBoundary =>
        /\ \A i \in 1..Len(Stored) : Stored[i].mistake_type \in {TOOL_SKIPPED, WRONG_ORDER}
        /\ \A c \in {TOOL_SKIPPED, WRONG_ORDER} :
               /\ FrequencyOf(Stored, c) = FailedRuns
               /\ Cardinality(EntriesOf(Stored, c)) = IF FailedRuns = 0 THEN 0 ELSE 1

\* two failed runs and a passed one have been recorded
C25_Witness ==
    /\ pc = "idle"
    /\ FailedRuns = 2
    /\ get_stats(file, clock).successful_runs = 1
    /\ FrequencyOf(Stored, TOOL_SKIPPED) = 2
    /\ FrequencyOf(Stored, WRONG_ORDER) = 2

-----------------------------------------------------------------------------
(* research from the point where its executor has returned, for any trace an
   ExecutionTrace can hold, on a store that is empty or holds two entries *)

EarlierFiles == {save(Prefilled(n, "flat")) : n \in {0, 2}}

InitResearch ==
    /\ file \in EarlierFiles
    /\ evicted = <<>>
    /\ clock = 0
    /\ learned_rules = <<>>
    /\ mistake_probability = 0
    /\ pc = "executed"
    /\ prompt = NoPrompt
    /\ plan = NoPlan
    /\ trace \in AnyTrace
    /\ failed_calls = {}
    /\ evaluation = NoEvaluation
    /\ mistakes = <<>>
    /\ call = NoCall
    /\ processes = NoProcesses

NextResearch == Evaluate \/ Learn \/ RecordRun

SpecResearch == InitResearch /\ [][NextResearch]_vars

TotalRuns == get_stats(file, clock).total_runs

\* C26: a run whose evaluation passed leaves the stored mistakes as they
\* were, whatever issues the evaluation lists; the stored mistakes change only
\* in the learning step of a failed run; and total_runs grows only in the
\* last step of a run, which comes after the learning step, and there by 1
C26_PassedRunKeepsStore ==
    [][/\ (pc \in {"evaluated", "learned"} /\ evaluation.passed) => Stored' = Stored
       /\ Stored' # Stored => pc = "evaluated" /\ pc' = "learned" /\ ~evaluation.passed
       /\ TotalRuns' # TotalRuns => pc = "learned" /\ pc' = "idle"
       /\ (pc = "learned" /\ pc' = "idle") => TotalRuns' = TotalRuns + 1
       /\ (pc = "evaluated" /\ pc' = "learned") => TotalRuns' = TotalRuns]_vars

\* the learning step of a run is over: the evaluation passed although it
\* lists an issue, and no mistake was derived
C26_Witness ==
    /\ pc = "learned"
    /\ evaluation.passed
    /\ evaluation.issues # <<>>
    /\ mistakes = <<>>
    /\ Stored # <<>>
    /\ TotalRuns = 0

-----------------------------------------------------------------------------
(* Several processes calling update_stats and add_mistakes on one file.  A
   store call is snapshot = self.load(), a change of that local snapshot, and
   self.save(snapshot); nothing locks the file in between *)

Procs == 1..MaxProcs

\* a process outside a store call, having returned from none
IdleProcess ==
    [pc |-> "idle", op |-> None, arg |-> None, snapshot |-> None,
     returned |-> [update_stats |-> 0, add_mistakes |-> 0], overlapped |-> FALSE]

\* the calls a process makes: update_stats(success), add_mistakes([mistake])
StoreCalls(now) ==
    {[op |-> "update_stats", arg |-> success] : success \in BOOLEAN}
    \cup {[op |-> "add_mistakes", arg |-> NewMistakes(<<TOOL_SKIPPED>>, rule, now)] :
             rule \in CorrectiveRules}

\* update_stats counting only the successful runs in total_runs
Mutated_CountsSuccesses(op, arg, snapshot) ==
    IF op = "update_stats"
    THEN [snapshot EXCEPT !.total_runs = IF arg THEN @ + 1 ELSE @,
                          !.successful_runs = IF arg THEN @ + 1 ELSE @]
    ELSE [snapshot EXCEPT !.mistakes = LimitStored(MergeAll(@, arg, 1)).kept]

\* what the call does to its local snapshot between load and save
Mutated(op, arg, snapshot) ==
    IF op = "update_stats"
    THEN [snapshot EXCEPT !.total_runs = @ + 1,
                          !.successful_runs = IF arg THEN @ + 1 ELSE @]
    ELSE [snapshot EXCEPT !.mistakes = LimitStored(MergeAll(@, arg, 1)).kept]

InitRace ==
    /\ file = WriteText(initial_data)
    /\ evicted = <<>>
    /\ clock = 0
    /\ learned_rules = <<>>
    /\ mistake_probability = 0
    /\ pc = "idle"
    /\ prompt = NoPrompt
    /\ plan = NoPlan
    /\ trace = NoTrace
    /\ failed_calls = {}
    /\ evaluation = NoEvaluation
    /\ mistakes = <<>>
    /\ call = NoCall
    /\ processes = [p \in Procs |-> IdleProcess]

\* a process enters a store call: snapshot = self.load().  The call overlaps
\* another if some other process is between its load and its save
LoadSnapshot ==
    \E p \in Procs, c \in StoreCalls(clock) :
        /\ processes[p].pc = "idle"
        /\ processes[p].returned.update_stats + processes[p].returned.add_mistakes < MaxCalls
        /\ processes' =
               [processes EXCEPT ![p] =
                   [@ EXCEPT !.pc = "loaded", !.op = c.op, !.arg = c.arg,
                             !.snapshot = load(file, clock),
                             !.overlapped =
                                 @ \/ \E q \in Procs \ {p} : processes[q].pc = "loaded"]]
        /\ UNCHANGED <<file, evicted, clock, learned_rules, mistake_probability, pc,
                       prompt, plan, trace, failed_calls, evaluation, mistakes, call>>

\* the process changes its snapshot, writes it with self.save(snapshot) and
\* returns from the call
SaveSnapshot ==
    \E p \in Procs :
        /\ processes[p].pc = "loaded"
        /\ file' = save(Mutated(processes[p].op, processes[p].arg, processes[p].snapshot))
        /\ evicted' =
               IF processes[p].op = "add_mistakes"
               THEN LimitStored(MergeAll(processes[p].snapshot.mistakes,
                                         processes[p].arg, 1)).dropped
               ELSE evicted
        /\ processes' =
               [processes EXCEPT ![p] =
                   [@ EXCEPT !.pc = "idle", !.op = None, !.arg = None, !.snapshot = None,
                             !.returned[processes[p].op] = @ + 1]]
        /\ UNCHANGED <<clock, learned_rules, mistake_probability, pc, prompt, plan,
                       trace, failed_calls, evaluation, mistakes, call>>

NextRace == LoadSnapshot \/ SaveSnapshot

SpecRace == InitRace /\ [][NextRace]_vars

\* calls of a method that have returned, over all processes
Returned(op) == SumSeq([p \in Procs |-> processes[p].returned[op]])

\* no call has begun while another process was inside one
Sequential == \A p \in Procs : ~processes[p].overlapped

\* C23: total_runs never exceeds the number of update_stats calls that have
\* returned, the stored frequency never exceeds the number of add_mistakes
\* calls that have returned, and as long as the calls follow each other
\* without overlap both are equal to those numbers: n sequential update_stats
\* calls add exactly n to total_runs.  (That overlapping calls can fall short
\* is the state of C23_Witness.)
C23_SequentialCallsCount ==
    /\ TotalRuns <= Returned("update_stats")
    /\ FrequencyOf(Stored, TOOL_SKIPPED) <= Returned("add_mistakes")
    /\ Sequential =>
           /\ TotalRuns = Returned("update_stats")
           /\ FrequencyOf(Stored, TOOL_SKIPPED) = Returned("add_mistakes")

\* two processes have each returned from one update_stats call that
\* overlapped the other's, and total_runs has grown by 1
C23_Witness ==
    /\ \A p \in Procs : processes[p].pc = "idle"
    /\ processes[1].returned = [update_stats |-> 1, add_mistakes |-> 0]
    /\ processes[2].returned = [update_stats |-> 1, add_mistakes |-> 0]
    /\ Returned("update_stats") = 2
    /\ TotalRuns = 1

====
